---- MODULE Spec2Model ----
(***************************************************************************)
(* A model of the radish task queue (package radish): the bounded tasks    *)
(* channel, the handler registry, the worker goroutines and the scaling    *)
(* operations, with client goroutines calling the public methods.          *)
(*                                                                         *)
(* sync.RWMutex: every read section of the code (Handler, NumWorkers) is   *)
(* a lookup with no blocking operation inside, so it is one step guarded   *)
(* by "no writer holds the mutex".  A write section is one step too,       *)
(* except removeWorkers, which blocks on an unbuffered channel send while  *)
(* it holds the mutex: lock names the client that is inside it.            *)
(***************************************************************************)
EXTENDS Integers, Sequences, FiniteSets, TLC

(* ------------------------------ bounds -------------------------------- *)
\* client goroutines calling the public API concurrently
NumClients == 2
\* worker objects ever created (New plus every later addWorkers)
MaxSpawn == 2
\* Futures ever created by Delay
MaxFutures == 2
\* largest worker count a client passes to a scaling call
MaxArg == 2
\* largest Config.Workers a caller passes to New
MaxInitWorkers == 1
\* largest Config.QueueSize a caller passes to New
MaxQueueSize == 1

(* ------------------------- program constants -------------------------- *)
ErrUnknown == 0
ErrInvalidConfig == 1
ErrTaskAlreadyRegistered == 2
ErrTaskNotRegistered == 3
ErrNoWorkers == 4
ErrInvalidWorkers == 5
defaultQueueSize == 5000
\* runtime.NumCPU() of the host
NumCPU == 1

Clients == 1..NumClients
WorkerIDs == 1..MaxSpawn
FutureIDs == 1..MaxFutures
WorkerArgs == (-1)..MaxArg

\* Task objects a caller can register; two of them answer the same Name().
TaskObjs == {1, 2, 3}
NoTask == 0
Name(t) == IF t = 2 THEN "bad" ELSE "good"
TaskNames == {"good", "bad"}
\* the tasks handed to New
InitialTasks == <<1>>
\* the Task objects clients pass to Register
RegisterArgs == {2, 3}

Range(s) == {s[i] : i \in 1..Len(s)}

(* ------------------------------ errors -------------------------------- *)
\* the nil error
nil == [Code |-> -1, Message |-> ""]
\* api.Errorf: the message is already formatted by the caller
Errorf(code, msg) == [Code |-> code, Message |-> msg]
\* mutant of ErrorString: the message alone, without the code
ErrorStringNoCode(e) == e.Message

\* (*api.Error).Error: "[%d] %s"
ErrorString(e) == "[" \o ToString(e.Code) \o "] " \o e.Message
\* the %q verb on the task names used here
Quote(s) == "\"" \o s \o "\""

\* the error a Task's Handle returns when it fails
TaskErr == [Code |-> ErrUnknown, Message |-> "whoops!"]

(* --------------------------- configuration ---------------------------- *)
ConfigInputs == [QueueSize : 1..MaxQueueSize, Workers : 0..MaxInitWorkers, LogLevel : {""}]

\* the keys of the logLevels map
logLevels == {"trace", "debug", "info", "status", "warn", "silent"}

\* strings.ToLower on the log-level strings used here
ToLower(s) ==
    CASE s = "WARN" -> "warn"
      [] s = "Info" -> "info"
      [] OTHER -> s

\* mutant of Validate: the zero values are kept
ValidateNoDefaults(c) ==
    LET level == IF c.LogLevel = "" THEN "info" ELSE ToLower(c.LogLevel) IN
    [err |-> IF level \in logLevels THEN nil
             ELSE Errorf(ErrInvalidConfig,
                         Quote(level) \o " is an invalid log level, use trace, debug, info, status, warn, or silent"),
     config |-> [QueueSize |-> c.QueueSize, Workers |-> c.Workers, LogLevel |-> level]]

\* Config.Validate: the fields that parameterize New get their defaults,
\* then the log level is lowered and looked up: [err, config]
Validate(c) ==
    LET level == IF c.LogLevel = "" THEN "info" ELSE ToLower(c.LogLevel) IN
    [err |-> IF level \in logLevels THEN nil
             ELSE Errorf(ErrInvalidConfig,
                         Quote(level) \o " is an invalid log level, use trace, debug, info, status, warn, or silent"),
     config |-> [QueueSize |-> IF c.QueueSize <= 0 THEN defaultQueueSize ELSE c.QueueSize,
                 Workers   |-> IF c.Workers <= 0 THEN NumCPU ELSE c.Workers,
                 LogLevel  |-> level]]

VARIABLES
    config,     \* r.config, after Validate
    tasks,      \* r.tasks: the buffered channel, as the sequence it holds
    workers,    \* r.workers: the slice of live workers, oldest first
    handlers,   \* r.handlers: task name -> Task
    lock,       \* the client inside removeWorkers' write section, or 0
    nextWorker, \* the next worker object to allocate
    wpc,        \* each worker goroutine's position in run()
    wtask,      \* the Future a worker received and is dispatching
    whandler,   \* the handler its lookup returned
    nextID,     \* the next Future id (uuid.NewRandom, modelled as fresh)
    cpc,        \* each client's position: idle, call (blocked on the mutex),
                \* push (in Delay's channel send), removing (in removeWorkers' loop)
    cop,        \* the method a client is inside, "none" when idle
    carg,       \* its argument
    ret,        \* the call that returned last: [op, arg, err, val]
    cfut,       \* the Future a Delay call built and is pushing
    crem,       \* removeWorkers' loop: iterations left
    trace       \* per Future: what workers did with it, in order

vars == <<config, tasks, workers, handlers, lock, nextWorker, wpc, wtask,
          whandler, nextID, cpc, cop, carg, ret, cfut, crem, trace>>

NoFuture == [ID |-> 0, Task |-> "", Params |-> "", Success |-> "", Failure |-> ""]
NoRet == [op |-> "none", arg |-> 0, err |-> nil, val |-> 0]

\* how often event ev was recorded for Future id
Count(id, ev) == Cardinality({i \in 1..Len(trace[id]) : trace[id][i].ev = ev})

(* ------------------------- pure parts of the code --------------------- *)
\* mutant of Handler: a missing name gives the map's zero value and no error
HandlerNoError(h, task) ==
    IF task \in DOMAIN h
    THEN [handler |-> h[task], err |-> nil]
    ELSE [handler |-> NoTask, err |-> nil]

\* Radish.Handler between RLock and RUnlock: the map lookup
Handler(h, task) ==
    IF task \in DOMAIN h
    THEN [handler |-> h[task], err |-> nil]
    ELSE [handler |-> NoTask,
          err |-> Errorf(ErrTaskNotRegistered, "unknown task " \o Quote(task))]

\* mutant of register: the existence test is missing and a second Register
\* overwrites the entry
registerOverwrite(h, t) ==
    [err |-> nil,
     handlers |-> [n \in DOMAIN h \cup {Name(t)} |-> IF n = Name(t) THEN t ELSE h[n]]]

\* mutant of register: nil is returned but the map assignment is missing
registerForgets(h, t) ==
    IF Name(t) \in DOMAIN h
    THEN [err |-> Errorf(ErrTaskAlreadyRegistered,
                         "task named " \o Quote(Name(t)) \o " has already been registered"),
          handlers |-> h]
    ELSE [err |-> nil, handlers |-> h]

\* mutant of register: the map is made anew for every task, which drops the
\* entries registered before
registerRemakesMap(h, t) ==
    IF Name(t) \in DOMAIN h
    THEN [err |-> Errorf(ErrTaskAlreadyRegistered,
                         "task named " \o Quote(Name(t)) \o " has already been registered"),
          handlers |-> h]
    ELSE [err |-> nil, handlers |-> [n \in {Name(t)} |-> t]]

\* Radish.Register between Lock and Unlock: [err, handlers]
register(h, t) ==
    IF Name(t) \in DOMAIN h
    THEN [err |-> Errorf(ErrTaskAlreadyRegistered,
                         "task named " \o Quote(Name(t)) \o " has already been registered"),
          handlers |-> h]
    ELSE [err |-> nil,
          handlers |-> [n \in DOMAIN h \cup {Name(t)} |-> IF n = Name(t) THEN t ELSE h[n]]]

\* New's loop over the tasks it is given: stops at the first error
RECURSIVE RegisterAll(_, _)
RegisterAll(h, ts) ==
    IF ts = <<>> THEN [err |-> nil, handlers |-> h]
    ELSE LET r == register(h, Head(ts)) IN
         IF r.err # nil THEN r ELSE RegisterAll(r.handlers, Tail(ts))

\* mutant of addWorkersCheck: the n < 0 test is missing, the loop runs zero
\* times and addWorkers returns nil
addWorkersCheckNoNegative(n) ==
    IF n = 0 THEN "noop" ELSE "spawn"

\* addWorkers' three cases
addWorkersCheck(n) ==
    IF n = 0 THEN "noop" ELSE IF n < 0 THEN "invalid" ELSE "spawn"

\* mutant of removeWorkersCheck: the n > len(r.workers) test is missing
removeWorkersCheckNoUpperBound(n, nworkers) ==
    IF n = 0 THEN "noop"
    ELSE IF n < 0 THEN "invalid"
    ELSE "loop"

\* mutant of removeWorkersCheck: n == 0 is refused like a negative n
removeWorkersCheckZeroInvalid(n, nworkers) ==
    IF n > nworkers THEN "toomany"
    ELSE IF n <= 0 THEN "invalid"
    ELSE "loop"

\* removeWorkers' four cases, in the order the code tests them
removeWorkersCheck(n, nworkers) ==
    IF n > nworkers THEN "toomany"
    ELSE IF n = 0 THEN "noop"
    ELSE IF n < 0 THEN "invalid"
    ELSE "loop"

\* mutant of setWorkersPlan: removeWorkers is handed the target n instead
\* of the difference
setWorkersPlanRemoveTarget(n, nworkers) ==
    IF n > nworkers THEN [add |-> n - nworkers, remove |-> 0]
    ELSE IF n < nworkers THEN [add |-> 0, remove |-> n]
    ELSE [add |-> 0, remove |-> 0]

\* mutant of setWorkersPlan: when n is not above the count, removeWorkers is
\* called with n, also when n equals the count
setWorkersPlanRemoveUpTo(n, nworkers) ==
    IF n > nworkers THEN [add |-> n - nworkers, remove |-> 0]
    ELSE [add |-> 0, remove |-> n]

\* SetWorkers' compare: how many workers to add and to remove
setWorkersPlan(n, nworkers) ==
    IF n > nworkers THEN [add |-> n - nworkers, remove |-> 0]
    ELSE IF n < nworkers THEN [add |-> 0, remove |-> nworkers - n]
    ELSE [add |-> 0, remove |-> 0]

\* mutant of chanCanSend: a send that never blocks (an unbounded queue)
chanSendNeverBlocks(q, cap) == TRUE

\* mutant of chanCanSend: a channel made one slot too large
chanCanSendOffByOne(q, cap) == Len(q) <= cap

\* a send on the buffered channel r.tasks proceeds when a slot is free
chanCanSend(q, cap) == Len(q) < cap

\* mutant of chanRecv: the receiver reads the oldest Future and leaves it
\* in the queue
chanPeek(q) == [task |-> Head(q), rest |-> q]

\* mutant of chanRecv: the receiver takes the newest Future (a stack)
chanRecvNewest(q) == [task |-> q[Len(q)], rest |-> SubSeq(q, 1, Len(q) - 1)]

\* a receive from r.tasks takes the oldest Future out of the channel
chanRecv(q) == [task |-> Head(q), rest |-> Tail(q)]

\* mutant of newWorkers: the loop stops one short
newWorkersOneShort(first, n) == [i \in 1..(n - 1) |-> first + i - 1]

\* the n worker objects addWorkers allocates, in order
newWorkers(first, n) == [i \in 1..n |-> first + i - 1]

\* mutant of New: the Radish is returned before AddWorkers(config.Workers)
NewNoWorkers(c, ts) ==
    LET v == Validate(c)
        reg == RegisterAll(<<>>, ts)
    IN  IF v.err # nil THEN [err |-> v.err, ok |-> FALSE, workers |-> <<>>]
        ELSE IF reg.err # nil THEN [err |-> reg.err, ok |-> FALSE, workers |-> <<>>]
        ELSE [err |-> nil, ok |-> TRUE, config |-> v.config, handlers |-> reg.handlers,
              workers |-> <<>>]

\* mutant of New: the workers are started before the tasks are registered
NewWorkersFirst(c, ts) ==
    LET v == Validate(c)
        reg == RegisterAll(<<>>, ts)
    IN  IF v.err # nil THEN [err |-> v.err, ok |-> FALSE, workers |-> <<>>]
        ELSE IF reg.err # nil
        THEN [err |-> reg.err, ok |-> FALSE, workers |-> newWorkers(1, v.config.Workers)]
        ELSE [err |-> nil, ok |-> TRUE, config |-> v.config, handlers |-> reg.handlers,
              workers |-> newWorkers(1, v.config.Workers)]

\* New: Validate, make the channel and the registry, Register each task,
\* AddWorkers(config.Workers). ok is whether a Radish is returned; workers
\* are the worker goroutines started, whether or not one is returned.
New(c, ts) ==
    LET v == Validate(c)
        reg == RegisterAll(<<>>, ts)
    IN  IF v.err # nil THEN [err |-> v.err, ok |-> FALSE, workers |-> <<>>]
        ELSE IF reg.err # nil THEN [err |-> reg.err, ok |-> FALSE, workers |-> <<>>]
        ELSE [err |-> nil, ok |-> TRUE, config |-> v.config, handlers |-> reg.handlers,
              workers |-> newWorkers(1, v.config.Workers)]

(* ------------------------------ Init ---------------------------------- *)
\* the state in which New(c, InitialTasks) returns a Radish
InitWith(c) ==
    LET r == New(c, InitialTasks) IN
    /\ r.ok
    /\ Len(r.workers) <= MaxSpawn
    /\ config = r.config
    /\ tasks = <<>>
    /\ workers = r.workers
    /\ handlers = r.handlers
    /\ lock = 0
    /\ nextWorker = Len(r.workers) + 1
    /\ wpc = [w \in WorkerIDs |-> IF w <= Len(r.workers) THEN "select" ELSE "unborn"]
    /\ wtask = [w \in WorkerIDs |-> NoFuture]
    /\ whandler = [w \in WorkerIDs |-> NoTask]
    /\ nextID = 1
    /\ cpc = [c2 \in Clients |-> "idle"]
    /\ cop = [c2 \in Clients |-> "none"]
    /\ carg = [c2 \in Clients |-> 0]
    /\ ret = NoRet
    /\ cfut = [c2 \in Clients |-> NoFuture]
    /\ crem = [c2 \in Clients |-> 0]
    /\ trace = [id \in FutureIDs |-> <<>>]

Init == \E c \in ConfigInputs : InitWith(c)

(* --------------------------- client calls ----------------------------- *)
\* client c enters a method: it calls it now, or it called it earlier and
\* has been blocked on the mutex since
Entering(c) == cpc[c] \in {"idle", "call"}

\* the call returns: the client is idle again and the result is recorded
Return(c, op, arg, err, val) ==
    /\ cpc' = [cpc EXCEPT ![c] = "idle"]
    /\ cop' = [cop EXCEPT ![c] = "none"]
    /\ carg' = [carg EXCEPT ![c] = 0]
    /\ ret' = [op |-> op, arg |-> arg, err |-> err, val |-> val]

\* the call goes on inside the method, at position pc
Continue(c, op, arg, pc) ==
    /\ cpc' = [cpc EXCEPT ![c] = pc]
    /\ cop' = [cop EXCEPT ![c] = op]
    /\ carg' = [carg EXCEPT ![c] = arg]
    /\ UNCHANGED ret

workerVars == <<wpc, wtask, whandler>>
queueVars == <<tasks, nextID, cfut, trace>>
scaleVars == <<workers, nextWorker, lock, crem>>

\* mutant of Lock: a write lock that excludes nobody
LockNotExclusive == TRUE

\* r.Lock() returns: no goroutine is inside a write section. (Read sections
\* and the short write sections are single steps, so the only section a
\* caller can find occupied is removeWorkers' loop.)
Lock == lock = 0

\* r.Lock() / r.RLock() at the head of a method finds the mutex held by
\* removeWorkers: the caller blocks. Which method it called, and with what
\* argument, is local to the caller until the mutex is free and the method
\* runs: the model draws them then. (SetWorkers returns its n < 0 error
\* before it locks, so it never blocks with n < 0.)
LockWait(c) ==
    /\ cpc[c] = "idle"
    /\ lock # 0
    /\ cpc' = [cpc EXCEPT ![c] = "call"]
    /\ UNCHANGED <<config, handlers, cop, carg, ret, workerVars, queueVars, scaleVars>>

\* Radish.Register
Register(c) ==
    /\ \E t \in RegisterArgs :
        /\ Entering(c)
        /\ LET r == register(handlers, t) IN
           /\ handlers' = r.handlers
           /\ Return(c, "Register", t, r.err, 0)
    /\ Lock
    /\ UNCHANGED <<config, workerVars, queueVars, scaleVars>>

\* Radish.Handler called by a client
HandlerCall(c) ==
    /\ \E name \in TaskNames :
        /\ Entering(c)
        /\ LET r == Handler(handlers, name) IN Return(c, "Handler", name, r.err, r.handler)
    /\ lock = 0
    /\ UNCHANGED <<config, handlers, workerVars, queueVars, scaleVars>>

\* mutant of NumWorkers: the count of workers ever started
NumWorkersEverStarted(c) ==
    /\ Entering(c)
    /\ lock = 0
    /\ Return(c, "NumWorkers", 0, nil, nextWorker - 1)
    /\ UNCHANGED <<config, handlers, workerVars, queueVars, scaleVars>>

\* mutant of NumWorkers: the read lock is not taken
NumWorkersNoRLock(c) ==
    /\ Entering(c)
    /\ Return(c, "NumWorkers", 0, nil, Len(workers))
    /\ UNCHANGED <<config, handlers, workerVars, queueVars, scaleVars>>

\* Radish.NumWorkers
NumWorkers(c) ==
    /\ Entering(c)
    /\ lock = 0
    /\ Return(c, "NumWorkers", 0, nil, Len(workers))
    /\ UNCHANGED <<config, handlers, workerVars, queueVars, scaleVars>>

\* mutant of Delay: the mutex is still held at the channel send
DelayKeepsLock(c) ==
    /\ \E name \in TaskNames :
        /\ Entering(c)
        /\ LET r == Handler(handlers, name) IN
           IF r.err # nil
           THEN /\ Return(c, "Delay", name,
                          Errorf(ErrTaskNotRegistered,
                                 "could not delay " \o ErrorString(r.err)), 0)
                /\ UNCHANGED <<nextID, cfut, lock>>
           ELSE /\ nextID <= MaxFutures
                /\ cfut' = [cfut EXCEPT ![c] =
                              [ID |-> nextID, Task |-> name, Params |-> "params",
                               Success |-> "success", Failure |-> "failure"]]
                /\ nextID' = nextID + 1
                /\ lock' = c
                /\ Continue(c, "Delay", 0, "push")
    /\ lock = 0
    /\ UNCHANGED <<config, handlers, workerVars, tasks, trace, workers, nextWorker, crem>>

\* Radish.Delay up to the channel send: the lookup and the new Future
Delay(c) ==
    /\ \E name \in TaskNames :
        /\ Entering(c)
        /\ LET r == Handler(handlers, name) IN
           IF r.err # nil
           THEN /\ Return(c, "Delay", name,
                          Errorf(ErrTaskNotRegistered,
                                 "could not delay " \o ErrorString(r.err)), 0)
                /\ UNCHANGED <<nextID, cfut>>
           ELSE /\ nextID <= MaxFutures
                /\ cfut' = [cfut EXCEPT ![c] =
                              [ID |-> nextID, Task |-> name, Params |-> "params",
                               Success |-> "success", Failure |-> "failure"]]
                /\ nextID' = nextID + 1
                /\ Continue(c, "Delay", 0, "push")
    /\ lock = 0
    /\ UNCHANGED <<config, handlers, workerVars, tasks, trace, scaleVars>>

\* Radish.Delay: r.tasks <- future, then return future.ID
DelayPush(c) ==
    /\ cpc[c] = "push"
    /\ chanCanSend(tasks, config.QueueSize)
    /\ tasks' = Append(tasks, cfut[c])
    /\ cfut' = [cfut EXCEPT ![c] = NoFuture]
    /\ Return(c, "Delay", cfut[c].Task, nil, cfut[c].ID)
    /\ UNCHANGED <<config, handlers, workerVars, nextID, trace, scaleVars>>

(* ------------------------------ scaling ------------------------------- *)
\* addWorkers(n), called by method op (with argument arg) with the write
\* lock held; the caller unlocks and returns addWorkers' error
addWorkers(c, op, arg, n) ==
    LET case == addWorkersCheck(n) IN
    IF case = "noop"
    THEN /\ Return(c, op, arg, nil, 0)
         /\ UNCHANGED <<workers, nextWorker, wpc>>
    ELSE IF case = "invalid"
    THEN /\ Return(c, op, arg,
                   Errorf(ErrInvalidWorkers,
                          "cannot add negative workers, use RemoveWorkers"), 0)
         /\ UNCHANGED <<workers, nextWorker, wpc>>
    ELSE /\ nextWorker + n - 1 <= MaxSpawn
         /\ LET new == newWorkers(nextWorker, n) IN
            /\ workers' = workers \o new
            /\ wpc' = [w \in WorkerIDs |-> IF w \in Range(new) THEN "select" ELSE wpc[w]]
         /\ nextWorker' = nextWorker + n
         /\ Return(c, op, arg, nil, 0)

\* the error of removeWorkers for n > len(r.workers): the two %d verbs
tooManyWorkers(n, nworkers) ==
    Errorf(ErrInvalidWorkers,
           "cannot remove " \o ToString(n) \o " workers, only "
           \o ToString(nworkers) \o " currently running")

\* removeWorkers(n) up to its loop, called by method op with the write lock
\* held: after one of the three early returns the caller unlocks; otherwise
\* the caller enters the loop and keeps the lock
removeWorkers(c, op, arg, n) ==
    LET case == removeWorkersCheck(n, Len(workers)) IN
    IF case = "toomany"
    THEN /\ Return(c, op, arg,
                   tooManyWorkers(n, Len(workers)), 0)
         /\ UNCHANGED <<lock, crem>>
    ELSE IF case = "noop"
    THEN /\ Return(c, op, arg, nil, 0)
         /\ UNCHANGED <<lock, crem>>
    ELSE IF case = "invalid"
    THEN /\ Return(c, op, arg,
                   Errorf(ErrInvalidWorkers,
                          "cannot remove negative workers, use AddWorkers"), 0)
         /\ UNCHANGED <<lock, crem>>
    ELSE /\ lock' = c
         /\ crem' = [crem EXCEPT ![c] = n]
         /\ Continue(c, op, arg, "removing")

\* Radish.SetWorkers
SetWorkers(c) ==
    /\ \E n \in WorkerArgs :
        /\ IF n < 0
           THEN /\ cpc[c] = "idle"
                /\ Return(c, "SetWorkers", n,
                          Errorf(ErrInvalidWorkers, "cannot set number of workers <0"), 0)
                /\ UNCHANGED <<workers, nextWorker, wpc, lock, crem>>
           ELSE /\ Entering(c)
                /\ Lock
                /\ LET plan == setWorkersPlan(n, Len(workers)) IN
                   IF plan.add > 0
                   THEN addWorkers(c, "SetWorkers", n, plan.add) /\ UNCHANGED <<lock, crem>>
                   ELSE IF plan.remove > 0
                   THEN /\ removeWorkers(c, "SetWorkers", n, plan.remove)
                        /\ UNCHANGED <<workers, nextWorker, wpc>>
                   ELSE /\ Return(c, "SetWorkers", n, nil, 0)
                        /\ UNCHANGED <<workers, nextWorker, wpc, lock, crem>>
    /\ UNCHANGED <<config, handlers, wtask, whandler, queueVars>>

\* Radish.AddWorkers
AddWorkers(c) ==
    /\ \E n \in WorkerArgs :
        /\ Entering(c)
        /\ addWorkers(c, "AddWorkers", n, n)
    /\ Lock
    /\ UNCHANGED <<config, handlers, wtask, whandler, queueVars, lock, crem>>

\* Radish.RemoveWorkers
RemoveWorkers(c) ==
    /\ \E n \in WorkerArgs :
        /\ Entering(c)
        /\ removeWorkers(c, "RemoveWorkers", n, n)
    /\ Lock
    /\ UNCHANGED <<config, handlers, workerVars, queueVars, workers, nextWorker>>

\* mutant of stopReady: a stop signal that preempts a running worker
stopPreempts(w) == wpc[w] \notin {"unborn", "stopped"}

\* the worker's select can take its stop case: it is at the top of its loop
stopReady(w) == wpc[w] = "select"

\* mutant of afterStop: the stop case continues the loop
afterStopContinue == "select"

\* where the worker goes when its select takes the stop case: it returns
afterStop == "stopped"

\* mutant of LastWorker: the worker at the head of the slice
FirstWorker == workers[1]

\* w := len(r.workers) - 1: the worker removeWorkers signals next
LastWorker == workers[Len(workers)]

\* one iteration of removeWorkers' loop. The send on the unbuffered stop
\* channel of the last worker completes together with that worker's
\* receive in run(); the sender then truncates the slice and, after the
\* last iteration, returns nil and unlocks; a SetWorkers called by Scale
\* returns into Scale.
removeWorkersLoop(c) ==
    /\ cpc[c] = "removing" /\ lock = c
    /\ LET w == LastWorker IN
       /\ stopReady(w)
       /\ wpc' = [wpc EXCEPT ![w] = afterStop]
    /\ workers' = SubSeq(workers, 1, Len(workers) - 1)
    /\ crem' = [crem EXCEPT ![c] = @ - 1]
    /\ IF crem[c] = 1
       THEN /\ lock' = 0
            /\ IF cop[c] = "Scale"
               THEN Continue(c, "Scale", carg[c], "scaled")
               ELSE Return(c, cop[c], carg[c], nil, 0)
       ELSE UNCHANGED <<lock, cpc, cop, carg, ret>>
    /\ UNCHANGED <<config, handlers, wtask, whandler, queueVars, nextWorker>>

(* ------------------------------ worker.run ---------------------------- *)
Log(id, e) == [trace EXCEPT ![id] = Append(@, e)]

\* mutant of runReceive: a worker receives only while no worker is inside a
\* Handle call
runReceiveSerial(w) ==
    /\ wpc[w] = "select"
    /\ tasks # <<>>
    /\ \A other \in WorkerIDs : wpc[other] # "handle"
    /\ LET r == chanRecv(tasks) IN
       /\ tasks' = r.rest
       /\ wtask' = [wtask EXCEPT ![w] = r.task]
       /\ trace' = Log(r.task.ID, [ev |-> "recv", h |-> NoTask, p |-> "", err |-> nil])
    /\ wpc' = [wpc EXCEPT ![w] = "lookup"]
    /\ UNCHANGED <<config, handlers, whandler, nextID, cfut, cpc, cop, carg, ret, scaleVars>>

\* case task := <-w.parent.tasks
runReceive(w) ==
    /\ wpc[w] = "select"
    /\ tasks # <<>>
    /\ LET r == chanRecv(tasks) IN
       /\ tasks' = r.rest
       /\ wtask' = [wtask EXCEPT ![w] = r.task]
       /\ trace' = Log(r.task.ID, [ev |-> "recv", h |-> NoTask, p |-> "", err |-> nil])
    /\ wpc' = [wpc EXCEPT ![w] = "lookup"]
    /\ UNCHANGED <<config, handlers, whandler, nextID, cfut, cpc, cop, carg, ret, scaleVars>>

\* handler, err := w.parent.Handler(task.Task): on an error the Future is
\* dropped and the loop continues; otherwise handler.Handle is called
runLookup(w) ==
    /\ wpc[w] = "lookup"
    /\ lock = 0
    /\ LET r == Handler(handlers, wtask[w].Task) IN
       IF r.err # nil
       THEN /\ wpc' = [wpc EXCEPT ![w] = "select"]
            /\ wtask' = [wtask EXCEPT ![w] = NoFuture]
            /\ trace' = Log(wtask[w].ID, [ev |-> "drop", h |-> NoTask, p |-> "", err |-> nil])
            /\ UNCHANGED whandler
       ELSE /\ wpc' = [wpc EXCEPT ![w] = "handle"]
            /\ whandler' = [whandler EXCEPT ![w] = r.handler]
            /\ trace' = Log(wtask[w].ID,
                            [ev |-> "Handle", h |-> r.handler, p |-> wtask[w].Params,
                             err |-> nil])
            /\ UNCHANGED wtask
    /\ UNCHANGED <<config, handlers, tasks, nextID, cfut, cpc, cop, carg, ret, scaleVars>>

\* mutant of outcome: the two branches of the err test are swapped
outcomeSwapped(err, task) ==
    IF err # nil
    THEN [ev |-> "Success", pc |-> "success", p |-> task.Success]
    ELSE [ev |-> "Failure", pc |-> "failure", p |-> task.Failure]

\* the branch run() takes on Handle's result: the callback it invokes, with
\* which of the Future's parameters
outcome(err, task) ==
    IF err # nil
    THEN [ev |-> "Failure", pc |-> "failure", p |-> task.Failure]
    ELSE [ev |-> "Success", pc |-> "success", p |-> task.Success]

\* handler.Handle returns err: the worker calls handler.Failure(id, err,
\* task.Failure) when err is not nil, handler.Success(id, task.Success)
\* when it is
runHandleReturn(w) ==
    /\ wpc[w] = "handle"
    /\ \E err \in {nil, TaskErr} :
        LET o == outcome(err, wtask[w]) IN
        /\ wpc' = [wpc EXCEPT ![w] = o.pc]
        /\ trace' = Log(wtask[w].ID,
                        [ev |-> o.ev, h |-> whandler[w], p |-> o.p, err |-> err])
    /\ UNCHANGED <<config, handlers, tasks, wtask, whandler, nextID, cfut, cpc, cop, carg,
                   ret, scaleVars>>

\* mutant of runCallbackReturn: after the Failure callback the worker sends
\* the Future to the queue again
runCallbackRequeue(w) ==
    /\ wpc[w] \in {"success", "failure"}
    /\ wpc' = [wpc EXCEPT ![w] = "select"]
    /\ wtask' = [wtask EXCEPT ![w] = NoFuture]
    /\ whandler' = [whandler EXCEPT ![w] = NoTask]
    /\ IF wpc[w] = "failure" /\ chanCanSend(tasks, config.QueueSize)
       THEN tasks' = Append(tasks, wtask[w])
       ELSE tasks' = tasks
    /\ UNCHANGED <<config, handlers, nextID, cfut, trace, cpc, cop, carg, ret, scaleVars>>

\* the callback returns: metrics, then back to the select
runCallbackReturn(w) ==
    /\ wpc[w] \in {"success", "failure"}
    /\ wpc' = [wpc EXCEPT ![w] = "select"]
    /\ wtask' = [wtask EXCEPT ![w] = NoFuture]
    /\ whandler' = [whandler EXCEPT ![w] = NoTask]
    /\ UNCHANGED <<config, handlers, tasks, nextID, cfut, trace, cpc, cop, carg, ret, scaleVars>>

(* --------------------------- specification ---------------------------- *)
Next ==
    \/ \E c \in Clients : LockWait(c)
    \/ \E c \in Clients : Register(c)
    \/ \E c \in Clients : HandlerCall(c)
    \/ \E c \in Clients : NumWorkers(c)
    \/ \E c \in Clients : Delay(c)
    \/ \E c \in Clients : DelayPush(c)
    \/ \E c \in Clients : SetWorkers(c)
    \/ \E c \in Clients : AddWorkers(c)
    \/ \E c \in Clients : RemoveWorkers(c)
    \/ \E c \in Clients : removeWorkersLoop(c)
    \/ \E w \in WorkerIDs : runReceive(w)
    \/ \E w \in WorkerIDs : runLookup(w)
    \/ \E w \in WorkerIDs : runHandleReturn(w)
    \/ \E w \in WorkerIDs : runCallbackReturn(w)

Spec == Init /\ [][Next]_vars

\* every handler invocation returns and every goroutine that can run does:
\* the Go scheduler runs a runnable goroutine, an RWMutex or channel waiter
\* is served once the resource is free (strong fairness: the resource is
\* free on and off), and select picks among its ready cases at random
Resume(c) ==
    /\ cpc[c] = "call"
    /\ \/ Register(c) \/ HandlerCall(c) \/ NumWorkers(c) \/ Delay(c)
       \/ SetWorkers(c) \/ AddWorkers(c) \/ RemoveWorkers(c)

Fairness ==
    /\ \A w \in WorkerIDs :
        /\ WF_vars(runReceive(w))
        /\ SF_vars(runLookup(w))
        /\ WF_vars(runHandleReturn(w))
        /\ WF_vars(runCallbackReturn(w))
    /\ \A c \in Clients :
        /\ SF_vars(DelayPush(c))
        /\ SF_vars(removeWorkersLoop(c))
        /\ SF_vars(Resume(c))

FairSpec == Spec /\ Fairness

(* ------------------------- shared definitions ------------------------- *)
\* the Futures a Delay call has pushed onto r.tasks
Pushed == {id \in FutureIDs : id < nextID /\ \A c \in Clients : cfut[c].ID # id}

\* how many slots of the channel hold Future id
InQueue(id) == Cardinality({i \in 1..Len(tasks) : tasks[i].ID = id})

\* the workers holding Future id
Holders(id) == {w \in WorkerIDs : wtask[w].ID = id}

\* the callbacks invoked for Future id
Callbacks(id) == Count(id, "Success") + Count(id, "Failure")

\* this step is the return of a public method (every return happens with
\* the mutex free and leaves the caller idle)
SomeReturn ==
    /\ lock' = 0
    /\ \E c \in Clients :
        /\ cpc'[c] = "idle"
        /\ \/ cpc[c] # "idle" \/ ret' # ret \/ workers' # workers
           \/ handlers' # handlers

ScalingOps == {"SetWorkers", "AddWorkers", "RemoveWorkers"}

(* ------------------------------- C2 ----------------------------------- *)
\* C2: exactly-once consumption. In every reachable state each Future has
\* been received from the queue at most once, is held by at most one worker,
\* has been passed to Handle at most once, only after it was pushed and
\* received; so the Handle invocations never outnumber the pushes.
C2_ExactlyOnce ==
    /\ \A id \in FutureIDs :
        /\ Count(id, "recv") <= 1
        /\ Count(id, "Handle") <= 1
        /\ Cardinality(Holders(id)) <= 1
        /\ Count(id, "Handle") <= Count(id, "recv")
        /\ Count(id, "recv") > 0 => id \in Pushed
    /\ Cardinality({id \in FutureIDs : Count(id, "Handle") > 0}) <= Cardinality(Pushed)

\* two Futures were pushed while two workers ran, and each was handled
C2_Witness ==
    /\ Len(workers) = 2
    /\ \A id \in 1..2 : Count(id, "Handle") = 1 /\ Callbacks(id) = 1

(* ------------------------------- C3 ----------------------------------- *)
\* C3: backpressure. While the queue holds config.QueueSize Futures, a Delay
\* call that is in its channel send stays there; the queue gets shorter
\* only when a live worker (one in r.workers, at its select) receives a
\* Future; and when the call leaves the send it returns a nil error. With
\* no live worker the call therefore waits until a worker has been added
\* and has dequeued.
C3_Backpressure ==
    [][\A c \in Clients :
          /\ (cpc[c] = "push" /\ Len(tasks) >= config.QueueSize) => cpc'[c] = "push"
          /\ (cpc[c] = "push" /\ cpc'[c] # "push") =>
                (ret'.op = "Delay" /\ ret'.err = nil /\ ret'.val = cfut[c].ID)
          /\ Len(tasks') < Len(tasks) =>
                \E w \in Range(workers) : wpc[w] = "select" /\ wpc'[w] = "lookup"]_vars

\* the queue is full, no worker is live, and a further Delay call is blocked
C3_Witness ==
    /\ workers = <<>>
    /\ Len(tasks) = config.QueueSize
    /\ \E c \in Clients : cpc[c] = "push"

(* ------------------------------- C4 ----------------------------------- *)
\* C4: queue bound. The queue never holds more than config.QueueSize
\* Futures, the capacity never changes, every pushed Future is in the queue
\* or has been received (none is dropped), and the only error Delay returns
\* is TaskNotRegistered (never a "queue full" error).
C4_QueueBound ==
    /\ [](/\ Len(tasks) >= 0
          /\ Len(tasks) <= config.QueueSize
          /\ \A id \in Pushed : InQueue(id) + Count(id, "recv") = 1
          /\ \A id \in FutureIDs \ Pushed : InQueue(id) = 0
          /\ (ret.op = "Delay" /\ ret.err # nil) => ret.err.Code = ErrTaskNotRegistered)
    /\ [][config' = config]_vars

\* the queue is at capacity
C4_Witness ==
    /\ Len(tasks) = config.QueueSize
    /\ ret.op = "Delay" /\ ret.err = nil

(* ------------------------------- C5 ----------------------------------- *)
\* C5: RemoveWorkers liveness. When every handler and callback invocation
\* returns and every goroutine that can run does run, a removeWorkers loop
\* that has started (0 < n <= len(r.workers)) finishes and its caller
\* returns.
C5_RemoveWorkersReturns ==
    \A c \in Clients : (cpc[c] = "removing") ~> (cpc[c] = "idle")

(* ------------------------------- C6 ----------------------------------- *)
\* C6: Register and Handler never block on Task execution. In no state does
\* a Handler call (the one a worker makes for the Future it has received)
\* wait for the mutex while the goroutine holding the mutex waits for a
\* handle, onSuccess or onFailure invocation to return.
C6_NeverBlockOnTask ==
    ~ \E c \in Clients :
        /\ cpc[c] = "removing"
        /\ lock = c
        /\ wpc[LastWorker] \in {"handle", "success", "failure"}
        /\ \E w \in Range(workers) : w # LastWorker /\ wpc[w] = "lookup"

(* ------------------------------- C1 ----------------------------------- *)
\* C1: Delivery. When every handler invocation returns, every Future a
\* successful Delay call has pushed eventually has had exactly one callback
\* (Success or Failure), unless r.workers becomes empty or a scaling call
\* is removing every worker (then no worker is left to run it).
C1_Delivery ==
    \A id \in FutureIDs :
        (id \in Pushed) ~>
            \/ Callbacks(id) = 1
            \/ workers = <<>>
            \/ \E c \in Clients : cpc[c] = "removing" /\ crem[c] >= Len(workers)

(* ------------------------------- C7 ----------------------------------- *)
\* C7: cooperative stop. A worker becomes Stopped only in a step that
\* starts with it at its select (Waiting); a worker that has stopped holds
\* no Future; and a Future whose Handle was invoked and that no worker holds
\* any more has had exactly one callback.
C7_CooperativeStop ==
    /\ [](/\ \A w \in WorkerIDs : wpc[w] = "stopped" => wtask[w] = NoFuture
          /\ \A id \in FutureIDs :
                (Count(id, "Handle") > 0 /\ Holders(id) = {}) => Callbacks(id) = 1)
    /\ [][\A w \in WorkerIDs :
            (wpc'[w] = "stopped" /\ wpc[w] # "stopped") => wpc[w] = "select"]_vars

\* removeWorkers has signalled a worker whose task is in flight, and waits
C7_Witness ==
    /\ \E c \in Clients : cpc[c] = "removing"
    /\ workers # <<>>
    /\ wpc[LastWorker] \in {"handle", "success", "failure"}

(* ------------------------------- C8 ----------------------------------- *)
\* C8: a worker that RemoveWorkers or SetWorkers has removed from r.workers
\* has stopped, holds no Future, and never leaves Stopped: it receives no
\* Future and calls no handler again.
C8_StoppedForGood ==
    /\ [](\A w \in WorkerIDs :
            (w < nextWorker /\ w \notin Range(workers)) =>
                (wpc[w] = "stopped" /\ wtask[w] = NoFuture /\ whandler[w] = NoTask))
    /\ [][\A w \in WorkerIDs :
            wpc[w] = "stopped" =>
                (wpc'[w] = "stopped" /\ wtask'[w] = wtask[w] /\ w \notin Range(workers'))]_vars

\* a removal has returned, its worker is stopped, and a Future waits in the
\* queue for some other worker
C8_Witness ==
    /\ ret.op \in {"RemoveWorkers", "SetWorkers"} /\ ret.err = nil
    /\ \E w \in WorkerIDs : wpc[w] = "stopped"
    /\ tasks # <<>>
    /\ lock = 0

(* ------------------------------- C9 ----------------------------------- *)
\* C9: whenever a SetWorkers(n) call with n >= 0 returns, it returns nil and
\* r.workers holds n workers at that moment (so NumWorkers() is n until the
\* next scaling call); n = 0 included.
C9_SetWorkers ==
    /\ []((ret.op = "SetWorkers" /\ ret.arg >= 0) => ret.err = nil)
    /\ [][(SomeReturn /\ ret'.op = "SetWorkers" /\ ret'.arg >= 0) =>
             (ret'.err = nil /\ Len(workers') = ret'.arg)]_vars

\* SetWorkers(0) has returned and left no worker
C9_Witness ==
    /\ ret.op = "SetWorkers" /\ ret.arg = 0 /\ ret.err = nil
    /\ workers = <<>>
    /\ \E w \in WorkerIDs : wpc[w] = "stopped"

(* ------------------------------- C10 ---------------------------------- *)
\* C10: AddWorkers(n), RemoveWorkers(n) and SetWorkers(n) with n < 0 return
\* an InvalidWorkers error (code 5), and the step in which they return
\* changes neither r.workers nor any worker goroutine: none is started,
\* signalled or removed.
C10_NegativeWorkers ==
    /\ []((ret.op \in ScalingOps /\ ret.arg < 0) =>
             (ret.err # nil /\ ret.err.Code = ErrInvalidWorkers /\ ret.err.Code = 5))
    /\ [][(SomeReturn /\ ret'.op \in ScalingOps /\ ret'.arg < 0) =>
             (/\ workers' = workers
              /\ nextWorker' = nextWorker
              /\ wpc' = wpc
              /\ lock' = lock)]_vars

\* RemoveWorkers(-1) has failed while two workers are live
C10_Witness ==
    /\ ret.op = "RemoveWorkers" /\ ret.arg < 0 /\ ret.err.Code = ErrInvalidWorkers
    /\ Len(workers) = 2

(* ------------------------------- C11 ---------------------------------- *)
\* C11: RemoveWorkers(n) with n greater than len(r.workers) returns the
\* InvalidWorkers error (code 5) whose message names n and the current
\* count, and removes nothing: the step changes neither r.workers nor any
\* worker goroutine, and removeWorkers' loop never runs with more
\* iterations than there are workers.
C11_RemoveTooMany ==
    /\ [](\A c \in Clients : cpc[c] = "removing" => crem[c] <= Len(workers))
    /\ [][(/\ lock = 0
           /\ SomeReturn
           /\ ret'.op = "RemoveWorkers"
           /\ ret'.arg > Len(workers)) =>
             (/\ ret'.err = Errorf(ErrInvalidWorkers,
                                   "cannot remove " \o ToString(ret'.arg)
                                   \o " workers, only " \o ToString(Len(workers))
                                   \o " currently running")
              /\ ret'.err.Code = 5
              /\ workers' = workers
              /\ nextWorker' = nextWorker
              /\ wpc' = wpc
              /\ lock' = 0)]_vars

\* RemoveWorkers(2) has failed with one live worker, which is busy
C11_Witness ==
    /\ ret.op = "RemoveWorkers" /\ ret.arg = 2
    /\ ret.err.Message = "cannot remove 2 workers, only 1 currently running"
    /\ workers = <<1>>
    /\ wpc[1] = "handle"

(* ------------------------------- C12 ---------------------------------- *)
\* C12: Register of a task whose name is already in r.handlers returns the
\* TaskAlreadyRegistered error (code 2) and leaves the registry unchanged;
\* in every step each registered name keeps the Task it was first
\* registered with (the map holds one entry per name).
C12_RegisterTwice ==
    /\ [](\A i \in 1..Len(InitialTasks) :
            /\ Name(InitialTasks[i]) \in DOMAIN handlers
            /\ handlers[Name(InitialTasks[i])] = InitialTasks[i])
    /\ [][/\ \A name \in DOMAIN handlers :
               name \in DOMAIN handlers' /\ handlers'[name] = handlers[name]
          /\ (/\ SomeReturn
              /\ ret'.op = "Register"
              /\ Name(ret'.arg) \in DOMAIN handlers) =>
                (/\ ret'.err = Errorf(ErrTaskAlreadyRegistered,
                                      "task named " \o Quote(Name(ret'.arg))
                                      \o " has already been registered")
                 /\ ret'.err.Code = 2
                 /\ handlers' = handlers)]_vars

\* a second Task named "bad" was refused after the first was registered,
\* and a Future for "bad" is being handled by the first
C12_Witness ==
    /\ ret.op = "Register" /\ ret.arg = 2 /\ ret.err.Code = ErrTaskAlreadyRegistered
    /\ handlers = [n \in {"good", "bad"} |-> IF n = "bad" THEN 2 ELSE 1]
    /\ \E w \in WorkerIDs : wpc[w] = "handle" /\ whandler[w] = 2

(* ------------------------------- C13 ---------------------------------- *)
\* C13: Delay for a task name that is not in r.handlers returns the
\* TaskNotRegistered error (code 3) wrapping Handler's error; the step
\* creates no Future (no id is drawn, nothing is being pushed) and leaves
\* the contents of r.tasks unchanged.
C13_DelayUnregistered ==
    /\ [](\A i \in 1..Len(tasks) : tasks[i].Task \in DOMAIN handlers)
    /\ [](\A c \in Clients : cpc[c] = "push" => cfut[c].Task \in DOMAIN handlers)
    /\ [][(/\ SomeReturn
           /\ ret'.op = "Delay"
           /\ ret'.arg \notin DOMAIN handlers) =>
             (/\ ret'.err = Errorf(ErrTaskNotRegistered,
                                   "could not delay [3] unknown task "
                                   \o Quote(ret'.arg))
              /\ ret'.err.Code = 3
              /\ tasks' = tasks
              /\ nextID' = nextID
              /\ cfut' = cfut
              /\ trace' = trace)]_vars

\* Delay("bad") has failed while a Future for "good" waits in the queue
C13_Witness ==
    /\ ret.op = "Delay" /\ ret.arg = "bad" /\ ret.err.Code = ErrTaskNotRegistered
    /\ Len(tasks) = 1 /\ tasks[1].Task = "good"
    /\ "bad" \notin DOMAIN handlers

(* ------------------------------- C14 ---------------------------------- *)
\* C14: outcome routing. For every Future, Handle is invoked at most once,
\* with the Future's params; once Handle has returned exactly one callback
\* has been invoked: Failure, with the error Handle returned and the
\* Future's failure params, when that error is not nil, Success, with its
\* success params, when it is nil; never both, never neither; and Handle
\* and the callback are invoked on the Task registered under the Future's
\* task name.
C14_OutcomeRouting ==
    /\ [](\A id \in FutureIDs :
            LET t == trace[id] IN
            /\ Count(id, "Handle") <= 1
            /\ Count(id, "Success") + Count(id, "Failure") <= 1
            /\ (Count(id, "Handle") = 1 /\ \A w \in Holders(id) : wpc[w] # "handle")
                  => Callbacks(id) = 1
            /\ \A i \in 1..Len(t) :
                /\ t[i].ev = "Handle" => (t[i].p = "params" /\ t[i].h # NoTask)
                /\ t[i].ev = "Failure" =>
                      (/\ t[i].err # nil /\ t[i].p = "failure"
                       /\ i > 1 /\ t[i-1].ev = "Handle" /\ t[i-1].h = t[i].h)
                /\ t[i].ev = "Success" =>
                      (/\ t[i].err = nil /\ t[i].p = "success"
                       /\ i > 1 /\ t[i-1].ev = "Handle" /\ t[i-1].h = t[i].h))
    /\ [](\A w \in WorkerIDs :
            wpc[w] \in {"handle", "success", "failure"} =>
                (/\ wtask[w].Task \in DOMAIN handlers
                 /\ whandler[w] = handlers[wtask[w].Task]
                 /\ trace[wtask[w].ID][Len(trace[wtask[w].ID])].h = whandler[w]))

\* one Future for "good" succeeded and one for "bad" failed, each on its
\* own Task
C14_Witness ==
    \E i, j \in FutureIDs :
        /\ Count(i, "Success") = 1 /\ Count(i, "Failure") = 0
        /\ trace[i][Len(trace[i])].h = 1
        /\ Count(j, "Failure") = 1 /\ Count(j, "Success") = 0
        /\ trace[j][Len(trace[j])].h = 2
        /\ trace[j][Len(trace[j])].err = TaskErr

(* ------------------------------- C15 ---------------------------------- *)
\* C15: concurrent scaling is atomic. A goroutine inside removeWorkers' loop
\* holds the write lock; r.workers changes only in a step of the goroutine
\* that holds it, or in a scaling call that finds it free and returns in
\* the same step; so whenever the last call to return is a SetWorkers(n),
\* n >= 0, and no scaling is in progress, len(r.workers) is n, whatever
\* other SetWorkers calls ran before it or waited meanwhile.
C15_AtomicScaling ==
    /\ [](\A c \in Clients : cpc[c] = "removing" => lock = c)
    /\ []((ret.op = "SetWorkers" /\ ret.arg >= 0 /\ lock = 0) =>
             (ret.err = nil /\ Len(workers) = ret.arg))
    /\ [][workers' # workers =>
            \E c \in Clients :
                \/ /\ lock = c /\ cpc[c] = "removing"
                   /\ Len(workers') = Len(workers) - 1
                \/ /\ lock = 0 /\ lock' = 0
                   /\ cpc[c] \in {"idle", "call"} /\ cpc'[c] = "idle"
                   /\ ret'.op \in ScalingOps]_vars

\* a SetWorkers call is removing workers while another call waits for the
\* mutex
C15_Witness ==
    \E c, c2 \in Clients :
        /\ cpc[c] = "removing" /\ cop[c] = "SetWorkers" /\ crem[c] = 2
        /\ cpc[c2] = "call"

(* ------------------------------- C16 ---------------------------------- *)
\* producers and workers on a queue with room for more than one Future: the
\* part of the program FIFO hand-off is about, from New with QueueSize
\* FifoQueueSize and one to MaxSpawn workers
FifoQueueSize == 2

FifoConfigInputs == [QueueSize : {FifoQueueSize}, Workers : 1..MaxSpawn, LogLevel : {""}]

FifoInit == \E c \in FifoConfigInputs : InitWith(c)

FifoNext ==
    \/ \E c \in Clients : Delay(c)
    \/ \E c \in Clients : DelayPush(c)
    \/ \E w \in WorkerIDs : runReceive(w)
    \/ \E w \in WorkerIDs : runLookup(w)
    \/ \E w \in WorkerIDs : runHandleReturn(w)
    \/ \E w \in WorkerIDs : runCallbackReturn(w)

FifoSpec == FifoInit /\ [][FifoNext]_vars

\* C16: FIFO hand-off. Every push puts its Future behind all Futures in the
\* queue and every receive hands a worker the Future at the front, the one
\* pushed earliest, leaving the others in order: Futures leave the queue in
\* the order they entered it (a producer's earlier Future no later than its
\* later one), while nothing orders the callbacks.
C16_FifoHandoff ==
    [][/\ Len(tasks') > Len(tasks) =>
            (/\ Len(tasks') = Len(tasks) + 1
             /\ SubSeq(tasks', 1, Len(tasks)) = tasks
             /\ \E c \in Clients :
                    cpc[c] = "push" /\ tasks'[Len(tasks')] = cfut[c])
       /\ Len(tasks') < Len(tasks) =>
            (/\ tasks' = Tail(tasks)
             /\ \E w \in Range(workers) :
                    /\ wpc[w] = "select" /\ wpc'[w] = "lookup"
                    /\ wtask'[w] = Head(tasks))
       /\ Len(tasks') = Len(tasks) => tasks' = tasks]_vars

\* the Future pushed first was received first, although it was created
\* second; the other one is still queued, and a second worker is free
C16_Witness ==
    /\ Len(workers) = 2
    /\ Len(tasks) = 1 /\ tasks[1].ID = 1
    /\ \E w \in Range(workers) : wtask[w].ID = 2 /\ wpc[w] = "success"
    /\ \E w \in Range(workers) : wpc[w] = "select"

(* ------------------------------- C17 ---------------------------------- *)
\* C17: idempotence of scaling. When the last call to return is a successful
\* SetWorkers(k) and no scaling is in progress, a further SetWorkers(k)
\* returns nil in one step that starts no worker, signals none, and leaves
\* r.workers unchanged; it never enters removeWorkers' loop.
C17_SetWorkersIdempotent ==
    [][(ret.op = "SetWorkers" /\ ret.arg >= 0 /\ ret.err = nil /\ lock = 0) =>
         /\ (ret'.op = "SetWorkers" /\ ret'.arg = ret.arg) =>
                (/\ ret'.err = nil
                 /\ workers' = workers
                 /\ nextWorker' = nextWorker
                 /\ \A w \in WorkerIDs :
                        /\ (wpc'[w] = "unborn") = (wpc[w] = "unborn")
                        /\ (wpc'[w] = "stopped") = (wpc[w] = "stopped"))
         /\ \A c \in Clients :
                (cpc[c] # "removing" /\ cpc'[c] = "removing" /\ cop'[c] = "SetWorkers")
                    => carg'[c] # ret.arg]_vars

\* SetWorkers(2) has succeeded, both workers are busy, nothing has returned
\* since: the state in which a second SetWorkers(2) runs
C17_Witness ==
    /\ ret.op = "SetWorkers" /\ ret.arg = 2 /\ ret.err = nil
    /\ lock = 0
    /\ workers = <<1, 2>>
    /\ wpc[1] = "handle" /\ wpc[2] = "handle"
    /\ \A c \in Clients : cpc[c] = "idle"

C19_ZeroWorkersNoop ==
    /\ []((ret.op \in {"AddWorkers", "RemoveWorkers"} /\ ret.arg = 0) => ret.err = nil)
    /\ [][(/\ ret'.op \in {"AddWorkers", "RemoveWorkers"}
           /\ ret'.arg = 0
           /\ ret' # ret \/ SomeReturn) =>
             (/\ ret'.err = nil
              /\ workers' = workers
              /\ nextWorker' = nextWorker
              /\ wpc' = wpc /\ wtask' = wtask
              /\ tasks' = tasks
              /\ handlers' = handlers
              /\ config' = config
              /\ lock = 0 /\ lock' = 0)]_vars

\* RemoveWorkers(0) has returned nil with two workers, a queued Future and
\* two registered tasks
C19_Witness ==
    /\ ret.op = "RemoveWorkers" /\ ret.arg = 0 /\ ret.err = nil
    /\ Len(workers) = 2
    /\ tasks # <<>>
    /\ DOMAIN handlers = {"good", "bad"}

(* ------------------------------- C20 ---------------------------------- *)
\* construction with every worker count the model has room for, followed by
\* the calls a fresh Radish gets: NumWorkers, Delay, and its workers running
ConstructConfigInputs == [QueueSize : 1..MaxQueueSize, Workers : 1..MaxSpawn, LogLevel : {""}]

ConstructInit == \E c \in ConstructConfigInputs : InitWith(c)

ConstructNext ==
    \/ \E c \in Clients : NumWorkers(c)
    \/ \E c \in Clients : Delay(c)
    \/ \E c \in Clients : DelayPush(c)
    \/ \E w \in WorkerIDs : runReceive(w)
    \/ \E w \in WorkerIDs : runLookup(w)
    \/ \E w \in WorkerIDs : runHandleReturn(w)
    \/ \E w \in WorkerIDs : runCallbackReturn(w)

ConstructSpec == ConstructInit /\ [][ConstructNext]_vars

\* C20: construction. For a configuration with Workers = w > 0, New returns
\* a Radish with w workers; until a method has returned, r.workers holds
\* config.Workers workers, all started and at their select, and a
\* NumWorkers call that returns first returns config.Workers.
C20_Construction ==
    /\ [](\A c \in ConstructConfigInputs :
            LET r == New(c, InitialTasks) IN
            /\ r.ok /\ r.err = nil
            /\ r.config.Workers = c.Workers
            /\ Len(r.workers) = c.Workers)
    /\ [](ret = NoRet =>
            (/\ config.Workers > 0
             /\ Len(workers) = config.Workers
             /\ nextWorker = config.Workers + 1
             /\ \A i \in 1..Len(workers) :
                    /\ wpc[workers[i]] = "select"
                    /\ \A j \in 1..(i - 1) : workers[j] # workers[i]))
    /\ [][(ret = NoRet /\ ret'.op = "NumWorkers") =>
             (ret'.err = nil /\ ret'.val = config.Workers)]_vars

\* New was given Workers = 2 and the first call, NumWorkers, returned 2
C20_Witness ==
    /\ config.Workers = 2
    /\ ret.op = "NumWorkers" /\ ret.val = 2
    /\ nextID = 1
    /\ \A c \in Clients : cpc[c] = "idle"

(* ------------------------------- C21 ---------------------------------- *)
\* C21: Register/Delay ordering. A Register that has returned nil has left
\* its task in r.handlers under its name; and every Delay and every Handler
\* call that runs while a name is in r.handlers finds it: Handler returns
\* the registered Task and no error, Delay does not return an error, and a
\* worker's lookup for a Future of that name finds the Task.
C21_RegisterThenDelay ==
    /\ []((ret.op = "Register" /\ ret.err = nil) =>
             (/\ Name(ret.arg) \in DOMAIN handlers
              /\ handlers[Name(ret.arg)] = ret.arg))
    /\ [][/\ (/\ SomeReturn
              /\ ret'.op = "Handler"
              /\ ret'.arg \in DOMAIN handlers) =>
                (ret'.err = nil /\ ret'.val = handlers[ret'.arg])
          /\ (/\ SomeReturn
              /\ ret'.op = "Delay"
              /\ ret'.arg \in DOMAIN handlers) => ret'.err = nil
          /\ \A c \in Clients :
                (/\ cpc[c] \in {"idle", "call"} /\ cpc'[c] = "push")
                    <=> (/\ cfut'[c] # cfut[c]
                         /\ cfut'[c].Task \in DOMAIN handlers)
          /\ \A w \in WorkerIDs :
                (/\ wpc[w] = "lookup" /\ wpc'[w] # "lookup"
                 /\ wtask[w].Task \in DOMAIN handlers) =>
                    (wpc'[w] = "handle" /\ whandler'[w] = handlers[wtask[w].Task])]_vars

\* Register of Task "bad" returned nil, and afterwards Delay("bad") has
\* returned an id
C21_Witness ==
    /\ ret.op = "Delay" /\ ret.arg = "bad" /\ ret.err = nil /\ ret.val \in FutureIDs
    /\ handlers["bad"] = 2

(* ------------------------------- C22 ---------------------------------- *)
\* C22: the registry is additive and single-valued. r.handlers maps each
\* name to one Task, whose Name() is that name; an entry never disappears
\* and never changes; and r.handlers changes only in a step in which a
\* Register call returns nil, by gaining that call's task under its name.
C22_RegistryAdditive ==
    /\ [](\A name \in DOMAIN handlers :
            handlers[name] \in TaskObjs /\ Name(handlers[name]) = name)
    /\ [][/\ DOMAIN handlers \subseteq DOMAIN handlers'
          /\ \A name \in DOMAIN handlers : handlers'[name] = handlers[name]
          /\ handlers' # handlers =>
                (/\ ret'.op = "Register" /\ ret'.err = nil
                 /\ Name(ret'.arg) \notin DOMAIN handlers
                 /\ DOMAIN handlers' = DOMAIN handlers \cup {Name(ret'.arg)}
                 /\ handlers'[Name(ret'.arg)] = ret'.arg)]_vars

\* both names are registered, each with its first Task; a second Task named
\* "good" was refused
C22_Witness ==
    /\ DOMAIN handlers = {"good", "bad"}
    /\ handlers["good"] = 1 /\ handlers["bad"] = 2
    /\ ret.op = "Register" /\ ret.arg = 3 /\ ret.err # nil

(* ------------------------------- C23 ---------------------------------- *)
\* C23: NumWorkers is a pure observation. The step in which a NumWorkers
\* call returns reports nil and the length of r.workers, which is the number
\* of worker goroutines running at that moment, and it leaves r.workers, the
\* queue, the registry, every worker and every Future as they were.
C23_NumWorkersPure ==
    [][(/\ ret'.op = "NumWorkers"
        /\ \/ ret' # ret
           \/ \E c \in Clients : cpc[c] # "idle" /\ cpc'[c] = "idle") =>
            (/\ ret'.err = nil
             /\ ret'.val = Len(workers)
             /\ ret'.val = Cardinality({w \in WorkerIDs : wpc[w] \notin {"unborn", "stopped"}})
             /\ UNCHANGED <<config, workers, tasks, handlers, lock, nextWorker,
                            wpc, wtask, whandler, nextID, cfut, crem, trace>>)]_vars

\* NumWorkers reported one worker after a second one had been started and
\* stopped again, with a Future waiting in the queue
C23_Witness ==
    /\ ret.op = "NumWorkers" /\ ret.val = 1
    /\ Len(workers) = 1 /\ nextWorker = 3
    /\ tasks # <<>>

(* ------------------------------- C24 ---------------------------------- *)
\* C24: every error a core method returns is a (code, message) pair that
\* renders as "[<code>] <message>", with the codes Unknown = 0,
\* InvalidConfig = 1, TaskAlreadyRegistered = 2, TaskNotRegistered = 3,
\* NoWorkers = 4 and InvalidWorkers = 5. A negative SetWorkers renders
\* "[5] cannot set number of workers <0", and removing more workers than are
\* running renders "[5] cannot remove <n> workers, only <k> currently
\* running": for 87 from 4, "[5] cannot remove 87 workers, only 4 currently
\* running".
C24_ErrorRendering ==
    /\ <<ErrUnknown, ErrInvalidConfig, ErrTaskAlreadyRegistered,
         ErrTaskNotRegistered, ErrNoWorkers, ErrInvalidWorkers>> = <<0, 1, 2, 3, 4, 5>>
    /\ ErrorString(tooManyWorkers(87, 4)) =
           "[5] cannot remove 87 workers, only 4 currently running"
    /\ ret.err # nil =>
        /\ ret.err.Code \in 0..5
        /\ \E digit \in {"0", "1", "2", "3", "4", "5"} :
              /\ digit = ToString(ret.err.Code)
              /\ ErrorString(ret.err) = "[" \o digit \o "] " \o ret.err.Message
        /\ ret.op = "SetWorkers" =>
              (ret.arg < 0 /\ ErrorString(ret.err) = "[5] cannot set number of workers <0")
        /\ ret.op = "AddWorkers" =>
              (ret.arg < 0 /\ ErrorString(ret.err) =
                                "[5] cannot add negative workers, use RemoveWorkers")
        /\ (ret.op = "RemoveWorkers" /\ ret.arg < 0) =>
              ErrorString(ret.err) = "[5] cannot remove negative workers, use AddWorkers"
        /\ (ret.op = "RemoveWorkers" /\ ret.arg >= 0) =>
              \E k \in 0..(ret.arg - 1) :
                  ErrorString(ret.err) =
                      "[5] cannot remove " \o ToString(ret.arg) \o " workers, only "
                      \o ToString(k) \o " currently running"
        /\ ret.op = "Register" =>
              ErrorString(ret.err) =
                  "[2] task named " \o Quote(Name(ret.arg)) \o " has already been registered"
        /\ ret.op = "Handler" =>
              ErrorString(ret.err) = "[3] unknown task " \o Quote(ret.arg)
        /\ ret.op = "Delay" =>
              ErrorString(ret.err) =
                  "[3] could not delay [3] unknown task " \o Quote(ret.arg)
        /\ ret.op \in {"SetWorkers", "AddWorkers", "RemoveWorkers", "Register",
                       "Handler", "Delay"}

\* RemoveWorkers(2) was refused with one worker running
C24_Witness ==
    /\ ret.op = "RemoveWorkers" /\ ret.arg = 2
    /\ Len(workers) = 1
    /\ ErrorString(ret.err) = "[5] cannot remove 2 workers, only 1 currently running"

(* ------------------- the service methods of serve.go ------------------- *)
\* Radish.Shutdown: it takes no lock, touches nothing and returns an error
Shutdown(c) ==
    /\ Entering(c)
    /\ Return(c, "Shutdown", 0, Errorf(ErrUnknown, "shutdown is not implemented yet"), 0)
    /\ UNCHANGED <<config, handlers, workerVars, queueVars, scaleVars>>

\* Radish.Register in two steps, for the callers that do not take the mutex:
\* r.Lock() returns ...
RegisterLock(c) ==
    /\ \E t \in RegisterArgs :
        /\ Entering(c)
        /\ Continue(c, "Register", t, "register")
    /\ Lock
    /\ lock' = c
    /\ UNCHANGED <<config, handlers, workerVars, queueVars, workers, nextWorker, crem>>

\* ... and the check, the map assignment and the deferred r.Unlock()
RegisterUnlock(c) ==
    /\ cpc[c] = "register"
    /\ LET r == register(handlers, carg[c]) IN
       /\ handlers' = r.handlers
       /\ Return(c, "Register", carg[c], r.err, 0)
    /\ lock' = 0
    /\ UNCHANGED <<config, workerVars, queueVars, workers, nextWorker, crem>>

\* Radish.Status, first field: r.NumWorkers(), a read section of its own
StatusBegin(c) ==
    /\ Entering(c)
    /\ lock = 0
    /\ Continue(c, "Status", Len(workers), "status")
    /\ UNCHANGED <<config, handlers, workerVars, queueVars, scaleVars>>

\* the Go runtime's throw when it detects a map read beside a map write
mapFatal == [Code |-> -2, Message |-> "fatal error: concurrent map iteration and map write"]

\* the process has died of it
fatal == ret.op = "Status" /\ ret.err = mapFatal

\* Radish.Status, the rest: len(r.tasks), len(r.handlers) and the range over
\* r.handlers, with no lock taken. Beside a Register that is inside its
\* write section and will insert, the read is a data race: it may see the
\* map without the entry, with it, or end in the runtime's fatal error.
\* The call's result is recorded as the workers count read before (arg) and
\* the number of names listed (val).
StatusRead(c) ==
    /\ cpc[c] = "status"
    /\ LET writes == {register(handlers, carg[w]).handlers :
                          w \in {w2 \in Clients : cpc[w2] = "register"}}
           racing == writes \ {handlers}
       IN  \/ Return(c, "Status", carg[c], nil, Cardinality(DOMAIN handlers))
           \/ \E h \in racing : Return(c, "Status", carg[c], nil, Cardinality(DOMAIN h))
           \/ racing # {} /\ Return(c, "Status", carg[c], mapFatal, 0)
    /\ UNCHANGED <<config, handlers, workerVars, queueVars, scaleVars>>

\* the goroutines of S that can still take a step: none after the fatal error
Live(S) == IF fatal THEN {} ELSE S

ServeNext ==
    \/ \E c \in Live(Clients) : Shutdown(c)
    \/ \E c \in Live(Clients) : RegisterLock(c)
    \/ \E c \in Live(Clients) : RegisterUnlock(c)
    \/ \E c \in Live(Clients) : StatusBegin(c)
    \/ \E c \in Live(Clients) : StatusRead(c)
    \/ \E c \in Live(Clients) : Delay(c)
    \/ \E c \in Live(Clients) : DelayPush(c)
    \/ \E w \in Live(WorkerIDs) : runReceive(w)
    \/ \E w \in Live(WorkerIDs) : runLookup(w)
    \/ \E w \in Live(WorkerIDs) : runHandleReturn(w)
    \/ \E w \in Live(WorkerIDs) : runCallbackReturn(w)

\* the scheduler runs every goroutine that can run, as in Fairness
ServeFairness ==
    /\ \A w \in WorkerIDs :
        /\ WF_vars(~fatal /\ runReceive(w))
        /\ SF_vars(~fatal /\ runLookup(w))
        /\ WF_vars(~fatal /\ runHandleReturn(w))
        /\ WF_vars(~fatal /\ runCallbackReturn(w))
    /\ \A c \in Clients :
        /\ SF_vars(~fatal /\ DelayPush(c))
        /\ WF_vars(~fatal /\ RegisterUnlock(c))
        /\ WF_vars(~fatal /\ StatusRead(c))

ServeSpec == Init /\ [][ServeNext]_vars /\ ServeFairness

(* ------------------------------- C25 ---------------------------------- *)
\* C25: Shutdown shuts the queue down gracefully. Once a Shutdown call has
\* returned, no Delay call accepts a new task; the Futures already accepted
\* get their callback; and every worker is eventually stopped.
C25_ShutdownGraceful ==
    /\ [][ret.op = "Shutdown" =>
            \A c \in Clients : ~(cpc[c] = "idle" /\ cpc'[c] = "push")]_vars
    /\ \A id \in FutureIDs :
          (ret.op = "Shutdown" /\ id \in Pushed) ~> (fatal \/ Callbacks(id) = 1)
    /\ (ret.op = "Shutdown") ~>
          (fatal \/ \A w \in WorkerIDs : wpc[w] \in {"unborn", "stopped"})

(* ------------------------------- C26 ---------------------------------- *)
\* C26: no retry and no requeue. The queue gains a Future only in the step
\* in which a client's Delay call sends it, a Future that nobody held before:
\* no worker step adds to the queue. A Future whose Handle returned an error
\* is handed back to no worker and has no Handle call again: its Failure
\* callback is invoked once and is the last event of the Future.
C26_NoRetry ==
    /\ [](\A id \in FutureIDs :
            /\ Count(id, "Handle") <= 1
            /\ Count(id, "Failure") <= 1
            /\ Count(id, "Failure") = 1 =>
                  /\ trace[id][Len(trace[id])].ev = "Failure"
                  /\ InQueue(id) = 0
            /\ (\E i \in 1..Len(trace[id]) : trace[id][i].err # nil) =>
                  (InQueue(id) = 0 /\ Count(id, "Success") = 0))
    /\ [][/\ Len(tasks') > Len(tasks) =>
                \E c \in Clients :
                    /\ cpc[c] = "push" /\ cpc'[c] = "idle"
                    /\ tasks' = Append(tasks, cfut[c])
                    /\ trace[cfut[c].ID] = <<>>
                    /\ Holders(cfut[c].ID) = {}
                    /\ ret'.op = "Delay" /\ ret'.err = nil /\ ret'.val = cfut[c].ID
          /\ \A w \in WorkerIDs :
                (wtask'[w] # wtask[w] /\ wtask'[w] # NoFuture) =>
                    trace[wtask'[w].ID] = <<>>]_vars

\* the Failure callback of a Future has returned: the Future is in no queue
\* slot and in no worker's hands, and the worker that had it is at its select
C26_Witness ==
    \E id \in FutureIDs :
        /\ Count(id, "Failure") = 1
        /\ trace[id][Len(trace[id])].ev = "Failure"
        /\ InQueue(id) = 0 /\ Holders(id) = {}
        /\ \A w \in Range(workers) : wpc[w] = "select"

(* ------------------------------- C27 ---------------------------------- *)
\* C27: the unknown-task branch of a worker's dispatch is unreachable. Every
\* Future that Delay has built, that is in the queue or that a worker holds
\* names a task present in r.handlers; so no worker's lookup fails and no
\* Future is dropped: a lookup step always goes on to Handle.
C27_NoDrop ==
    /\ [](/\ \A i \in 1..Len(tasks) : tasks[i].Task \in DOMAIN handlers
          /\ \A w \in WorkerIDs :
                wtask[w] # NoFuture =>
                    (/\ wtask[w].Task \in DOMAIN handlers
                     /\ Handler(handlers, wtask[w].Task).err = nil)
          /\ \A c \in Clients :
                cfut[c] # NoFuture => cfut[c].Task \in DOMAIN handlers
          /\ \A id \in FutureIDs : Count(id, "drop") = 0)
    /\ [][\A w \in WorkerIDs :
            (wpc[w] = "lookup" /\ wpc'[w] # "lookup") =>
                (wpc'[w] = "handle" /\ wtask'[w] = wtask[w])]_vars

\* a worker has looked up the handler of a "bad" Future, registered after
\* construction, while a "good" Future waits in the queue
C27_Witness ==
    /\ \E w \in WorkerIDs :
          wpc[w] = "handle" /\ wtask[w].Task = "bad" /\ whandler[w] = handlers["bad"]
    /\ tasks # <<>> /\ tasks[1].Task = "good"

(* ------------------------------- C28 ---------------------------------- *)
\* C28: every access to r.handlers happens under the mutex. The write of
\* Register happens while its caller holds the write lock, and no read of
\* the map (by Handler, by Delay, by a worker's lookup or by Status) happens
\* while a Register call is inside its write section; so no Status call
\* ends in the runtime's concurrent-map fatal error.
C28_RegistryUnderLock ==
    /\ [][/\ handlers' # handlers => \E c \in Clients : lock = c /\ cpc[c] = "register"
          /\ \A c \in Clients :
                (cpc[c] = "status" /\ cpc'[c] = "idle") => lock = 0
          /\ \A c \in Clients :
                (cpc[c] = "idle" /\ cop'[c] = "Delay") => lock = 0
          /\ \A w \in WorkerIDs :
                (wpc[w] = "lookup" /\ wpc'[w] # "lookup") => lock = 0]_vars
    /\ [](~fatal)

(* ------------------------------- C29 ---------------------------------- *)
\* A queue constructed with two or more workers and never scaled, in which
\* the Handle invocation of one Future, the first one created, never
\* returns; every other handler and callback invocation returns.
StuckID == CHOOSE id \in FutureIDs : \A other \in FutureIDs : id <= other

StuckInit == \E c \in ConstructConfigInputs : c.Workers >= 2 /\ InitWith(c)

StuckHandleReturn(w) == wtask[w].ID # StuckID /\ runHandleReturn(w)

StuckNext ==
    \/ \E c \in Clients : Delay(c)
    \/ \E c \in Clients : DelayPush(c)
    \/ \E w \in WorkerIDs : runReceive(w)
    \/ \E w \in WorkerIDs : runLookup(w)
    \/ \E w \in WorkerIDs : StuckHandleReturn(w)
    \/ \E w \in WorkerIDs : runCallbackReturn(w)

\* the scheduler runs every goroutine that can run, as in Fairness
StuckFairness ==
    /\ \A w \in WorkerIDs :
        /\ WF_vars(runReceive(w))
        /\ SF_vars(runLookup(w))
        /\ WF_vars(StuckHandleReturn(w))
        /\ WF_vars(runCallbackReturn(w))
    /\ \A c \in Clients : SF_vars(DelayPush(c))

StuckSpec == StuckInit /\ [][StuckNext]_vars /\ StuckFairness

\* C29: a handler that never returns costs exactly one worker. With at
\* least one other worker running and no worker removed, the worker inside
\* the stuck Handle call stays there with its Future, and every other Future
\* that Delay has accepted eventually gets its callback.
C29_StuckCostsOneWorker ==
    /\ \A id \in FutureIDs \ {StuckID} : (id \in Pushed) ~> (Callbacks(id) = 1)
    /\ [](Cardinality({w \in WorkerIDs : wpc[w] = "handle" /\ wtask[w].ID = StuckID}) <= 1)
    /\ [][\A w \in WorkerIDs :
            (wpc[w] = "handle" /\ wtask[w].ID = StuckID) =>
                (wpc'[w] = "handle" /\ wtask'[w] = wtask[w])]_vars

\* a worker is inside the stuck Handle call and another Future, accepted
\* after the stuck one was received, has had its callback
C29_Witness ==
    /\ \E w \in WorkerIDs : wpc[w] = "handle" /\ wtask[w].ID = StuckID
    /\ \E id \in FutureIDs \ {StuckID} :
          /\ Callbacks(id) = 1
          /\ trace[id][1].ev = "recv"

(* ------------------------------- C30 ---------------------------------- *)
\* C30: removal is LIFO. r.workers lists the running workers in the order
\* they were started. Whenever r.workers shrinks, it loses exactly its last
\* element, the worker started most recently, in a step of a removeWorkers
\* loop that holds the write lock; that worker was at its select and has
\* taken the stop signal in this very step; the workers before it stay in
\* the slice, in their order, and where they were in run().
C30_RemovalLIFO ==
    /\ [](/\ \A i, j \in 1..Len(workers) : i < j => workers[i] < workers[j]
          /\ \A i \in 1..Len(workers) : wpc[workers[i]] \notin {"unborn", "stopped"})
    /\ [][Len(workers') < Len(workers) =>
            (/\ \E c \in Clients : lock = c /\ cpc[c] = "removing" /\ crem'[c] = crem[c] - 1
             /\ Len(workers') = Len(workers) - 1
             /\ \A i \in 1..Len(workers') :
                    /\ workers'[i] = workers[i]
                    /\ wpc'[workers[i]] = wpc[workers[i]]
             /\ \A v \in Range(workers') : v < workers[Len(workers)]
             /\ wpc[workers[Len(workers)]] = "select"
             /\ wpc'[workers[Len(workers)]] = "stopped")]_vars

\* RemoveWorkers(1) has returned with two workers started: the second one
\* is stopped and the first is still in the slice, inside a Handle call
C30_Witness ==
    /\ ret.op = "RemoveWorkers" /\ ret.arg = 1 /\ ret.err = nil
    /\ workers = <<1>> /\ nextWorker = 3
    /\ wpc[2] = "stopped" /\ wpc[1] = "handle"

(* ------------------------------- C31 ---------------------------------- *)
\* C31: scaling and registration serialize. At most one goroutine is inside
\* a write section; a Register, AddWorkers, RemoveWorkers or SetWorkers call
\* changes r.handlers or r.workers, or enters removeWorkers' loop, only in
\* a step that finds the mutex free; and a NumWorkers or Handler call
\* returns only while no goroutine is inside a write section, so NumWorkers
\* never reports the count in the middle of a removal.
C31_Serialize ==
    /\ [](/\ Cardinality({c \in Clients : cpc[c] = "removing"}) <= 1
          /\ lock # 0 => (lock \in Clients /\ cpc[lock] = "removing" /\ crem[lock] >= 1)
          /\ lock = 0 => \A c \in Clients : cpc[c] # "removing")
    /\ [][/\ (\/ handlers' # handlers
              \/ Len(workers') > Len(workers)
              \/ \E c \in Clients : cpc[c] # "removing" /\ cpc'[c] = "removing") =>
                lock = 0
          /\ (/\ ret'.op \in {"NumWorkers", "Handler"}
              /\ \/ ret' # ret
                 \/ \E c \in Clients : cpc[c] # "idle" /\ cpc'[c] = "idle") =>
                (/\ lock = 0 /\ lock' = 0
                 /\ \A c \in Clients : cpc[c] # "removing" /\ crem[c] = 0
                 /\ ret'.op = "NumWorkers" => ret'.val = Len(workers'))]_vars

\* a NumWorkers call that waited for the mutex during the removal of both
\* workers has returned 0
C31_Witness ==
    /\ ret.op = "NumWorkers" /\ ret.val = 0
    /\ workers = <<>> /\ wpc[1] = "stopped" /\ wpc[2] = "stopped"
    /\ \E c \in Clients : cpc[c] = "call"

(* ------------------------------- C32 ---------------------------------- *)
\* C32: the running worker goroutines are those in r.workers. Whenever no
\* goroutine is inside a write section, the workers whose run() loop is
\* running (at the select or dispatching a Future; workers not yet started
\* and stopped workers excluded) are exactly the elements of r.workers, each
\* once, so their number is len(r.workers), the value NumWorkers returns;
\* and at every moment the workers inside a Handle or callback invocation
\* are in r.workers, so they are at most len(r.workers).
C32_RunningIsLive ==
    LET running   == {w \in WorkerIDs : wpc[w] \notin {"unborn", "stopped"}}
        executing == {w \in WorkerIDs : wpc[w] \in {"handle", "success", "failure"}}
    IN  /\ lock = 0 =>
            /\ Range(workers) = running
            /\ Cardinality(running) = Len(workers)
        /\ executing \subseteq Range(workers)
        /\ Cardinality(executing) <= Len(workers)

\* no scaling call is in progress and both workers of r.workers are inside
\* a Handle call
C32_Witness ==
    /\ lock = 0 /\ \A c \in Clients : cpc[c] = "idle"
    /\ Len(workers) = 2
    /\ \A w \in Range(workers) : wpc[w] = "handle"

(* ------------------------------- C33 ---------------------------------- *)
\* C33: a Delay call blocked on a full queue holds no lock. A client inside
\* Delay's channel send never holds the mutex; and while a client is blocked
\* there with the queue full and no removal in progress, the mutex is free
\* and every other caller's Register, Handler, NumWorkers, SetWorkers and
\* AddWorkers call can run to its return, an AddWorkers(n), n > 0, adding
\* workers that can take Futures from the queue.
C33_BlockedDelayHoldsNoLock ==
    /\ \A c \in Clients : cpc[c] = "push" => lock # c
    /\ (/\ \E c \in Clients : cpc[c] = "push" /\ Len(tasks) >= config.QueueSize
        /\ \A c \in Clients : cpc[c] # "removing") =>
            /\ lock = 0
            /\ \A c2 \in Clients :
                  cpc[c2] \in {"idle", "call"} =>
                      /\ ENABLED (Register(c2) /\ cpc'[c2] = "idle" /\ ret'.op = "Register")
                      /\ ENABLED (HandlerCall(c2) /\ cpc'[c2] = "idle" /\ ret'.op = "Handler")
                      /\ ENABLED (NumWorkers(c2) /\ cpc'[c2] = "idle" /\ ret'.op = "NumWorkers")
                      /\ ENABLED (SetWorkers(c2) /\ cpc'[c2] = "idle" /\ ret'.op = "SetWorkers")
                      /\ ENABLED (AddWorkers(c2) /\ cpc'[c2] = "idle" /\ ret'.op = "AddWorkers")
                      /\ nextWorker <= MaxSpawn =>
                            ENABLED (/\ AddWorkers(c2)
                                     /\ Len(workers') > Len(workers)
                                     /\ wpc'[workers'[Len(workers')]] = "select")

\* a Delay call is blocked on the full queue, with no worker left to take
\* from it, and an AddWorkers(1) call has returned nil with the new worker
\* at its select
C33_Witness ==
    /\ \E c \in Clients : cpc[c] = "push" /\ cfut[c].ID = 2
    /\ Len(tasks) = config.QueueSize
    /\ ret.op = "AddWorkers" /\ ret.arg = 1 /\ ret.err = nil
    /\ workers = <<2>> /\ wpc[2] = "select" /\ wpc[1] = "stopped"

(* --------------------------- the call of New --------------------------- *)
\* the configurations and task lists New is called with: zero and negative
\* sizes, the empty, a mixed-case, an upper-case and an unknown log level,
\* and up to two tasks, two of which may share a name
LogLevelInputs == {"", "Info", "WARN", "verbose"}

NewConfigInputs ==
    [QueueSize : (-1)..MaxQueueSize, Workers : (-1)..MaxSpawn, LogLevel : LogLevelInputs]

TaskLists ==
    {<<>>} \cup {<<a>> : a \in TaskObjs} \cup {<<a, b>> : a \in TaskObjs, b \in TaskObjs}

\* the caller holds a Config; no Radish exists and no worker was started
NewInit ==
    /\ config \in NewConfigInputs
    /\ tasks = <<>>
    /\ workers = <<>>
    /\ handlers = <<>>
    /\ lock = 0
    /\ nextWorker = 1
    /\ wpc = [w \in WorkerIDs |-> "unborn"]
    /\ wtask = [w \in WorkerIDs |-> NoFuture]
    /\ whandler = [w \in WorkerIDs |-> NoTask]
    /\ nextID = 1
    /\ cpc = [c2 \in Clients |-> "idle"]
    /\ cop = [c2 \in Clients |-> "none"]
    /\ carg = [c2 \in Clients |-> 0]
    /\ ret = NoRet
    /\ cfut = [c2 \in Clients |-> NoFuture]
    /\ crem = [c2 \in Clients |-> 0]
    /\ trace = [id \in FutureIDs |-> <<>>]

\* New(config, ts...) is called and returns. Validate writes its defaults
\* through the caller's pointer whether or not it fails; the worker
\* goroutines started are running whether or not a Radish is returned. The
\* result is recorded as the error and the number of workers started (val).
NewCall ==
    /\ ret = NoRet
    /\ \E ts \in TaskLists :
        LET r == New(config, ts) IN
        /\ Len(r.workers) <= MaxSpawn
        /\ config' = Validate(config).config
        /\ workers' = IF r.ok THEN r.workers ELSE <<>>
        /\ handlers' = IF r.ok THEN r.handlers ELSE handlers
        /\ wpc' = [w \in WorkerIDs |-> IF w \in Range(r.workers) THEN "select" ELSE "unborn"]
        /\ nextWorker' = Len(r.workers) + 1
        /\ ret' = [op |-> "New", arg |-> 0, err |-> r.err, val |-> Len(r.workers)]
    /\ UNCHANGED <<tasks, lock, wtask, whandler, nextID, cpc, cop, carg, cfut, crem, trace>>

\* the goroutines of S that have a Radish to work on: none before New has
\* returned one
Built(S) == IF ret.op = "none" \/ (ret.op = "New" /\ ret.err # nil) THEN {} ELSE S

NewNext ==
    \/ NewCall
    \/ \E c \in Built(Clients) : NumWorkers(c)
    \/ \E c \in Built(Clients) : Delay(c)
    \/ \E c \in Built(Clients) : DelayPush(c)
    \/ \E w \in Built(WorkerIDs) : runReceive(w)
    \/ \E w \in Built(WorkerIDs) : runLookup(w)
    \/ \E w \in Built(WorkerIDs) : runHandleReturn(w)
    \/ \E w \in Built(WorkerIDs) : runCallbackReturn(w)

NewSpec == NewInit /\ [][NewNext]_vars

(* ------------------------------- C34 ---------------------------------- *)
\* C34: a failed New leaves nothing behind. New fails exactly when Validate
\* fails (InvalidConfig) or, Validate passing, two of the tasks share a name
\* (TaskAlreadyRegistered), for every Config and task list it may be called
\* with; then it returns no Radish and has started no worker goroutine, and
\* none is started afterwards.
C34_FailedNewStartsNothing ==
    /\ [](ret = NoRet => \A ts \in TaskLists :
            LET r == New(config, ts)
                shared == \E i, j \in 1..Len(ts) : i < j /\ Name(ts[i]) = Name(ts[j])
                level == config.LogLevel
            IN  /\ r.ok <=> r.err = nil
                /\ r.ok <=> (level \in {"", "Info", "WARN"} /\ ~shared)
                /\ level \notin {"", "Info", "WARN"} => r.err.Code = ErrInvalidConfig
                /\ (level \in {"", "Info", "WARN"} /\ shared) =>
                        r.err.Code = ErrTaskAlreadyRegistered
                /\ ~r.ok => r.workers = <<>>)
    /\ []((ret.op = "New" /\ ret.err # nil) =>
            (/\ ret.val = 0
             /\ workers = <<>> /\ handlers = <<>>
             /\ \A w \in WorkerIDs : wpc[w] = "unborn"))

\* New was given two tasks named "good" with Workers = 2 and has returned
\* TaskAlreadyRegistered; no worker runs
C34_Witness ==
    /\ ret.op = "New" /\ ret.err.Code = ErrTaskAlreadyRegistered
    /\ ret.err.Message = "task named \"good\" has already been registered"
    /\ config.Workers = 2
    /\ \A w \in WorkerIDs : wpc[w] = "unborn"

(* ------------------------------- C35 ---------------------------------- *)
\* C35: configuration defaulting. Validate replaces Workers <= 0 by the
\* number of CPUs and QueueSize <= 0 by 5000, keeps positive values, and
\* fails with InvalidConfig (code 1) exactly for a log level that, lowered,
\* is not a key of logLevels; so a Radish returned by New starts with at
\* least one worker, all at their select, and a queue capacity of at least 1.
C35_ConfigDefaults ==
    /\ NumCPU >= 1 /\ defaultQueueSize = 5000 /\ ErrInvalidConfig = 1
    /\ ret = NoRet =>
          LET v == Validate(config) IN
          /\ config.Workers <= 0 => v.config.Workers = NumCPU
          /\ config.Workers > 0 => v.config.Workers = config.Workers
          /\ config.QueueSize <= 0 => v.config.QueueSize = 5000
          /\ config.QueueSize > 0 => v.config.QueueSize = config.QueueSize
          /\ config.LogLevel \in {"", "Info"} => (v.err = nil /\ v.config.LogLevel = "info")
          /\ config.LogLevel = "WARN" => (v.err = nil /\ v.config.LogLevel = "warn")
          /\ config.LogLevel = "verbose" =>
                ErrorString(v.err) =
                    "[1] \"verbose\" is an invalid log level, use trace, debug, info, status, warn, or silent"
    /\ (ret.op = "New" /\ ret.err = nil) =>
          /\ ret.val >= 1 /\ Len(workers) = ret.val /\ Len(workers) = config.Workers
          /\ \A i \in 1..Len(workers) : wpc[workers[i]] = "select"
    /\ (ret.op # "none" /\ ~(ret.op = "New" /\ ret.err # nil)) =>
          (config.QueueSize >= 1 /\ config.Workers >= 1 /\ config.LogLevel \in logLevels)

\* New was called with the zero Config and has returned a Radish with the
\* default queue size, one worker per CPU and log level "info"
C35_Witness ==
    /\ ret.op = "New" /\ ret.err = nil
    /\ config = [QueueSize |-> defaultQueueSize, Workers |-> NumCPU, LogLevel |-> "info"]
    /\ Len(workers) = NumCPU /\ handlers = <<>>

(* ------------------- the adapters Queue and Scale of serve.go ---------- *)
\* err.(*api.Error): every error of the core is built by Errorf
isAPIError(e) ==
    e.Code \in {ErrUnknown, ErrInvalidConfig, ErrTaskAlreadyRegistered,
                ErrTaskNotRegistered, ErrNoWorkers, ErrInvalidWorkers}

\* the adapter returns its reply: Success, Error (err), the Uuid or Workers
\* field (val), and the error of the RPC itself (rpc)
Reply(c, op, arg, success, error, val) ==
    /\ cpc' = [cpc EXCEPT ![c] = "idle"]
    /\ cop' = [cop EXCEPT ![c] = "none"]
    /\ carg' = [carg EXCEPT ![c] = 0]
    /\ ret' = [op |-> op, arg |-> arg, err |-> error, val |-> val, Success |-> success,
               rpc |-> IF error = nil \/ isAPIError(error) THEN nil
                       ELSE [Code |-> -3,
                             Message |-> "could not cast error to API error: "
                                         \o error.Message]]

\* mutant of ScaleReply: the reply repeats the requested number
ScaleReplyEcho(c) ==
    /\ cpc[c] = "scaled"
    /\ lock = 0
    /\ Reply(c, "Scale", carg[c], TRUE, nil, carg[c])
    /\ UNCHANGED <<config, handlers, workerVars, queueVars, scaleVars>>

\* Radish.Scale up to the return of r.SetWorkers(int(in.Workers)): on its
\* error the reply is Success = false with the error and Workers unset;
\* otherwise SetWorkers has added the workers, entered removeWorkers' loop
\* or found nothing to do, and has released the mutex when Scale goes on
ScaleSetWorkers(c) ==
    /\ \E n \in WorkerArgs :
        IF n < 0
        THEN /\ cpc[c] = "idle"
             /\ Reply(c, "Scale", n, FALSE,
                      Errorf(ErrInvalidWorkers, "cannot set number of workers <0"), 0)
             /\ UNCHANGED <<workers, nextWorker, wpc, lock, crem>>
        ELSE /\ Entering(c)
             /\ Lock
             /\ LET plan == setWorkersPlan(n, Len(workers)) IN
                IF plan.add > 0
                THEN /\ nextWorker + plan.add - 1 <= MaxSpawn
                     /\ LET new == newWorkers(nextWorker, plan.add) IN
                        /\ workers' = workers \o new
                        /\ wpc' = [w \in WorkerIDs |->
                                      IF w \in Range(new) THEN "select" ELSE wpc[w]]
                     /\ nextWorker' = nextWorker + plan.add
                     /\ Continue(c, "Scale", n, "scaled")
                     /\ UNCHANGED <<lock, crem>>
                ELSE IF plan.remove > 0
                THEN /\ lock' = c
                     /\ crem' = [crem EXCEPT ![c] = plan.remove]
                     /\ Continue(c, "Scale", n, "removing")
                     /\ UNCHANGED <<workers, nextWorker, wpc>>
                ELSE /\ Continue(c, "Scale", n, "scaled")
                     /\ UNCHANGED <<workers, nextWorker, wpc, lock, crem>>
    /\ UNCHANGED <<config, handlers, wtask, whandler, queueVars>>

\* Radish.Scale, the rest: rep.Workers = int32(r.NumWorkers()), a read
\* section of its own, and return rep, nil
ScaleReply(c) ==
    /\ cpc[c] = "scaled"
    /\ lock = 0
    /\ Reply(c, "Scale", carg[c], TRUE, nil, Len(workers))
    /\ UNCHANGED <<config, handlers, workerVars, queueVars, scaleVars>>

\* mutant of Queue: the reply keeps Success = true when Delay failed
QueueKeepsSuccess(c) ==
    /\ \E name \in TaskNames :
        /\ Entering(c)
        /\ LET r == Handler(handlers, name) IN
           IF r.err # nil
           THEN /\ Reply(c, "Queue", name, TRUE,
                         Errorf(ErrTaskNotRegistered,
                                "could not delay " \o ErrorString(r.err)), 0)
                /\ UNCHANGED <<nextID, cfut>>
           ELSE /\ nextID <= MaxFutures
                /\ cfut' = [cfut EXCEPT ![c] =
                              [ID |-> nextID, Task |-> name, Params |-> "params",
                               Success |-> "success", Failure |-> "failure"]]
                /\ nextID' = nextID + 1
                /\ Continue(c, "Queue", 0, "push")
    /\ lock = 0
    /\ UNCHANGED <<config, handlers, workerVars, tasks, trace, scaleVars>>

\* Radish.Queue up to Delay's channel send: when Delay's lookup fails the
\* reply is Success = false with Delay's error; otherwise Delay has built
\* the Future
Queue(c) ==
    /\ \E name \in TaskNames :
        /\ Entering(c)
        /\ LET r == Handler(handlers, name) IN
           IF r.err # nil
           THEN /\ Reply(c, "Queue", name, FALSE,
                         Errorf(ErrTaskNotRegistered,
                                "could not delay " \o ErrorString(r.err)), 0)
                /\ UNCHANGED <<nextID, cfut>>
           ELSE /\ nextID <= MaxFutures
                /\ cfut' = [cfut EXCEPT ![c] =
                              [ID |-> nextID, Task |-> name, Params |-> "params",
                               Success |-> "success", Failure |-> "failure"]]
                /\ nextID' = nextID + 1
                /\ Continue(c, "Queue", 0, "push")
    /\ lock = 0
    /\ UNCHANGED <<config, handlers, workerVars, tasks, trace, scaleVars>>

\* Radish.Queue, the rest: Delay's send returns the id and the reply is
\* Success = true with it
QueuePush(c) ==
    /\ cpc[c] = "push" /\ cop[c] = "Queue"
    /\ chanCanSend(tasks, config.QueueSize)
    /\ tasks' = Append(tasks, cfut[c])
    /\ cfut' = [cfut EXCEPT ![c] = NoFuture]
    /\ Reply(c, "Queue", cfut[c].Task, TRUE, nil, cfut[c].ID)
    /\ UNCHANGED <<config, handlers, workerVars, nextID, trace, scaleVars>>

\* remote callers of Queue and Scale, beside callers of the core's scaling
\* methods and of Register, and the workers
AdapterNext ==
    \/ \E c \in Clients : ScaleSetWorkers(c)
    \/ \E c \in Clients : removeWorkersLoop(c)
    \/ \E c \in Clients : ScaleReply(c)
    \/ \E c \in Clients : Queue(c)
    \/ \E c \in Clients : QueuePush(c)
    \/ \E c \in Clients : Register(c)
    \/ \E c \in Clients : AddWorkers(c)
    \/ \E c \in Clients : RemoveWorkers(c)
    \/ \E w \in WorkerIDs : runReceive(w)
    \/ \E w \in WorkerIDs : runLookup(w)
    \/ \E w \in WorkerIDs : runHandleReturn(w)
    \/ \E w \in WorkerIDs : runCallbackReturn(w)

AdapterSpec == Init /\ [][AdapterNext]_vars

(* ------------------------------- C36 ---------------------------------- *)
\* C36, as stated: every Scale reply with Success = true reports Workers
\* equal to the number requested, whatever other scaling calls run beside it.
C36_ScaleReportsRequested ==
    (ret.op = "Scale" /\ ret.Success) => ret.val = ret.arg

\* C36, amended: when r.SetWorkers(n) returns nil into Scale, r.workers has
\* n workers; until Scale's NumWorkers call, r.workers changes only by a
\* step of another caller's scaling call; and the reply with Success = true
\* reports the length of r.workers at that call. So Workers is n unless
\* another caller's scaling call changed r.workers in between.
C36_ScaleReportsCurrent ==
    [][\A c \in Clients :
        /\ (cpc[c] # "scaled" /\ cpc'[c] = "scaled") =>
              (Len(workers') = carg'[c] /\ lock' = 0)
        /\ (cpc[c] = "scaled" /\ cpc'[c] = "scaled" /\ workers' # workers) =>
              \E c2 \in Clients \ {c} :
                  \/ cpc[c2] = "removing"
                  \/ cpc'[c2] = "scaled" /\ cpc[c2] # "scaled"
                  \/ /\ cpc[c2] = "idle" /\ cpc'[c2] = "idle"
                     /\ ret'.op = "AddWorkers" /\ ret'.err = nil
                     /\ Len(workers') > Len(workers)
        /\ (cpc[c] = "scaled" /\ cpc'[c] = "idle") =>
              (/\ ret'.op = "Scale" /\ ret'.arg = carg[c]
               /\ ret'.Success /\ ret'.err = nil /\ ret'.rpc = nil
               /\ ret'.val = Len(workers)
               /\ workers' = workers
               /\ (Len(workers) # carg[c]) <=> (ret'.val # ret'.arg))]_vars

\* Scale(2) has replied Success = true with Workers = 2 while another
\* caller's Scale(1), whose SetWorkers came first, has not replied yet
C36_Witness ==
    /\ ret.op = "Scale" /\ ret.Success /\ ret.arg = 2 /\ ret.val = 2
    /\ \E c \in Clients : cpc[c] = "scaled" /\ carg[c] = 1
    /\ Len(workers) = 2

(* ------------------------------- C37 ---------------------------------- *)
\* C37: the Queue and Scale adapters preserve the core's errors. A reply is
\* Success = false exactly when Delay or SetWorkers failed (the task is not
\* registered, the number is negative); it then carries the core's code and
\* message, the RPC itself returns no error, and the step creates and
\* enqueues no Future and changes neither the workers nor the registry.
C37_AdaptersPreserveErrors ==
    [][(ret' # ret /\ ret'.op \in {"Queue", "Scale"}) =>
        /\ ret'.rpc = nil
        /\ ret'.Success <=> (ret'.err = nil)
        /\ (ret'.op = "Queue") =>
              /\ ret'.Success <=> (ret'.arg \in DOMAIN handlers)
              /\ ~ret'.Success =>
                    /\ ret'.err.Code = ErrTaskNotRegistered
                    /\ ret'.err.Message =
                          "could not delay [3] unknown task " \o Quote(ret'.arg)
                    /\ ErrorString(ret'.err) =
                          "[3] could not delay [3] unknown task " \o Quote(ret'.arg)
                    /\ ret'.val = 0
                    /\ UNCHANGED <<tasks, nextID, cfut, trace, workers, wpc,
                                   handlers, lock>>
        /\ (ret'.op = "Scale") =>
              /\ ret'.Success <=> (ret'.arg >= 0)
              /\ ~ret'.Success =>
                    /\ ret'.err.Code = ErrInvalidWorkers
                    /\ ret'.err.Message = "cannot set number of workers <0"
                    /\ ErrorString(ret'.err) = "[5] cannot set number of workers <0"
                    /\ ret'.val = 0
                    /\ UNCHANGED <<workers, wpc, nextWorker, lock, crem, tasks,
                                   nextID, cfut, handlers>>]_vars

\* Queue has replied Success = false for the unregistered task "bad" while an
\* earlier request's Future is still in the queue
C37_Witness ==
    /\ ret.op = "Queue" /\ ret.arg = "bad"
    /\ ~ret.Success
    /\ ret.err = Errorf(ErrTaskNotRegistered,
                        "could not delay [3] unknown task \"bad\"")
    /\ Len(tasks) = 1
    /\ "bad" \notin DOMAIN handlers

====
